---- MODULE Spec2Model ----
(***************************************************************************)
(* A model of the plotting utilities of holoviews:                         *)
(*   - round_hex / coords_to_hex / hex_binning._process                    *)
(*       (src/holoviews/plotting/bokeh/hex_tiles.py)                       *)
(*   - save (src/holoviews/plotting/__init__.py)                           *)
(*                                                                         *)
(* Numbers.  The hex transform multiplies by 2/3, 1/3 and sqrt(3)/3, so    *)
(* a coordinate is modelled exactly as an element of Q(sqrt 3): the record *)
(* [a, b, d] with d > 0 stands for (a + b*sqrt(3)) / d.  A record with     *)
(* d = 0 stands for a non-finite float (NaN).  Rounding is numpy's         *)
(* (half to even), the integer cast truncates toward zero.                 *)
(***************************************************************************)
EXTENDS Integers, Sequences, FiniteSets

VARIABLES
    \* ---- round_hex called on its own
    rpc,        \* "call" | "done"
    fq, fr,     \* the fractional axial coordinates passed in (arrays)
    cells,      \* the pair of integer arrays returned
    \* ---- hex_binning._process
    pc,         \* position in _process
    element,    \* the element passed in: x, y, vdims, range
    p,          \* self.p: gridsize, aggregator, orientation
    min_count,  \* self.p.min_count, once line 104 has read it
    xsize, ysize,
    coords,     \* (q, r) after line 85
    aggregator, \* the local variable `aggregator`
    vdims, values,
    agg,        \* the aggregate of line 103, before the min_count slice
    ret,        \* the returned element, None until returned
    exc,        \* the exception raised, None if none
    \* ---- save
    spc,        \* position in save
    args,       \* the arguments save was called with
    obj,        \* the local `obj`
    plotclass,  \* Store.defaults[type(obj)], None until looked up
    plot,       \* the plot built at line 209: its number of frames len(plot)
    fmt,        \* the local `fmt`
    filename,   \* None until chosen
    files,      \* the file names opened for writing so far
    raised,     \* the exception save raised, None if none
    \* ---- Export.save_fig / Export.save_anim
    xpc,        \* position in the Export call
    xcall,      \* the call: method, basename, auto, fmt, encoded
    SHA,        \* Export.SHA
    SHA_mode,   \* Export.SHA_mode
    xfilename,  \* the local `filename`
    xdata,      \* figure_data / anim_data, None until rendered
    written,    \* the files written: pairs <<file name, content>>
    xraised,    \* the exception the call raised, None if none
    \* ---- CoordinateGridPlot.__call__
    gpc,        \* position in __call__
    grid_shape, \* the views grouped by the first key coordinate: each view [w, h]
    borders,    \* what _compute_borders returned: width, height, b_w, b_h
    gx, gy,     \* the locals x, y
    gw,         \* the local w: the width of the view placed last
    ci, vi,     \* the group and the view within it that the loops are at
    projs,      \* self.handles['projs']: the extents passed to imshow
    \* ---- update_frame of PointPlot, ContourPlot, SheetPlot
    plotkind,   \* the class of the plot that update_frame is called on
    stack_len,  \* len(self): the number of frames of the plot's stack
    layer_plots,\* self.plots of a SheetPlot: each [kind, len]
    shown,      \* the index of the frame each drawn artist displays
    last_n,     \* the argument of the last update_frame call, None if none
    ncalls,     \* the number of update_frame calls made
    \* ---- SheetPlot.__call__
    kpc,          \* position in __call__
    stacks,       \* self._stack.split_overlays(): each layer [style, type]
    style_groups, \* style -> its enumerate iterator: [items, pos]
    zorder,       \* the loop index of line 126
    plots,        \* self.plots: each [kind, zorder, cyclic_index, layer]
    kraised       \* the exception __call__ raised, None if none

rhVars == <<rpc, fq, fr, cells>>
hbVars == <<pc, element, p, min_count, xsize, ysize, coords, aggregator, vdims, values, agg, ret, exc>>
svVars == <<spc, args, obj, plotclass, plot, fmt, filename, files, raised>>
exVars == <<xpc, xcall, SHA, SHA_mode, xfilename, xdata, written, xraised>>
cgVars == <<gpc, grid_shape, borders, gx, gy, gw, ci, vi, projs>>
ufVars == <<plotkind, stack_len, layer_plots, shown, last_n, ncalls>>
spVars == <<kpc, stacks, style_groups, zorder, plots, kraised>>
vars == <<rhVars, hbVars, svVars, exVars, cgVars, ufVars, spVars>>

\* Python's None, and a present value: a variable that may hold None holds
\* <<>> for None and <<v>> for the value v.
None == <<>>
Some(v) == <<v>>

-----------------------------------------------------------------------------
(* Exact arithmetic in Q(sqrt 3) *)

RECURSIVE GCD(_, _)
GCD(m, n) == IF n = 0 THEN m ELSE GCD(n, m % n)

IAbs(n) == IF n < 0 THEN -n ELSE n
ISgn(n) == IF n < 0 THEN -1 ELSE IF n > 0 THEN 1 ELSE 0

\* (a + b*sqrt(3)) / d in lowest terms, d > 0.
Num(a, b, d) ==
    LET g == GCD(GCD(IAbs(a), IAbs(b)), IAbs(d))
    IN IF g = 0 THEN [a |-> 0, b |-> 0, d |-> 0]
       ELSE [a |-> (ISgn(d) * a) \div g, b |-> (ISgn(d) * b) \div g, d |-> IAbs(d) \div g]
Rat(n) == Num(n, 0, 1)
NaN == [a |-> 0, b |-> 0, d |-> 0]

\* The sign of a + b*sqrt(3).
Sgn(u) ==
    IF ISgn(u.a) * ISgn(u.b) >= 0
    THEN (IF u.a # 0 THEN ISgn(u.a) ELSE ISgn(u.b))
    ELSE ISgn(u.a) * ISgn(u.a * u.a - 3 * u.b * u.b)

NNeg(u) == Num(-u.a, -u.b, u.d)
NAdd(u, v) == Num(u.a * v.d + v.a * u.d, u.b * v.d + v.b * u.d, u.d * v.d)
NSub(u, v) == NAdd(u, NNeg(v))
NMul(u, v) == Num(u.a * v.a + 3 * u.b * v.b, u.a * v.b + u.b * v.a, u.d * v.d)
\* u / v for v # 0: multiply by the conjugate of v.
NDiv(u, v) ==
    LET n == v.a * v.a - 3 * v.b * v.b
        w == NMul([a |-> u.a, b |-> u.b, d |-> 1], [a |-> v.a * v.d, b |-> -(v.b * v.d), d |-> 1])
    IN Num(w.a, w.b, u.d * n)
NAbs(u) == IF Sgn(u) < 0 THEN NNeg(u) ELSE u
NGt(u, v) == Sgn(NSub(u, v)) > 0
NEq(u, v) == Sgn(NSub(u, v)) = 0

\* The largest integer k with k <= u (1 < sqrt(3) < 2 brackets the search).
NFloor(u) ==
    LET lo == (u.a - 2 * IAbs(u.b)) \div u.d
        hi == ((u.a + 2 * IAbs(u.b)) \div u.d) + 1
    IN CHOOSE k \in lo..hi :
          /\ Sgn(NSub(u, Rat(k))) >= 0
          /\ Sgn(NSub(u, Rat(k + 1))) < 0

-----------------------------------------------------------------------------
(* numpy on arrays (sequences of floats) *)

\* np.round on one float: to the nearest integer, halves to the even one.
round_half_even(u) ==
    LET f == NFloor(u)
        h == Sgn(NSub(NSub(u, Rat(f)), Num(1, 0, 2)))
    IN Rat(IF h < 0 THEN f
           ELSE IF h > 0 THEN f + 1
           ELSE IF f % 2 = 0 THEN f ELSE f + 1)

\* int(u) for one float holding u: truncation toward zero.
trunc(u) == IF Sgn(u) >= 0 THEN NFloor(u) ELSE -NFloor(NNeg(u))

\* An array is held as a tuple: Array(f) is the tuple of f[1], ..., f[n].
Array(f) == f \o <<>>

np_isfinite(x) == Array([i \in 1..Len(x) |-> x[i].d # 0])
np_round(x) == Array([i \in 1..Len(x) |-> round_half_even(x[i])])
np_abs(x) == Array([i \in 1..Len(x) |-> NAbs(x[i])])
astype_int(x) == Array([i \in 1..Len(x) |-> trunc(x[i])])
np_where(cond, a, b) == Array([i \in 1..Len(cond) |-> IF cond[i] THEN a[i] ELSE b[i]])
ArrNeg(x) == Array([i \in 1..Len(x) |-> NNeg(x[i])])
ArrAdd(x, y) == Array([i \in 1..Len(x) |-> NAdd(x[i], y[i])])
ArrSub(x, y) == Array([i \in 1..Len(x) |-> NSub(x[i], y[i])])
ArrGt(x, y) == Array([i \in 1..Len(x) |-> NGt(x[i], y[i])])
ArrAnd(c, d) == Array([i \in 1..Len(c) |-> c[i] /\ d[i]])
ArrNot(c) == Array([i \in 1..Len(c) |-> ~c[i]])
\* scalar * array, array / scalar
ArrScale(k, x) == Array([i \in 1..Len(x) |-> NMul(k, x[i])])
ArrDiv(x, k) == Array([i \in 1..Len(x) |-> NDiv(x[i], k)])

-----------------------------------------------------------------------------
(* round_hex: hex_tiles.py lines 11-31 *)

\* line 27: cond1 = (dx > dy) & (dx > dz)
Cond1_swapped(dx, dy, dz) == ArrAnd(ArrGt(dy, dx), ArrGt(dx, dz))
Cond1(dx, dy, dz) == ArrAnd(ArrGt(dx, dy), ArrGt(dx, dz))

\* line 29: ~cond1 & ~(dy > dz)
Cond2_without_cond1(cond1, dy, dz) == ArrNot(ArrGt(dy, dz))
Cond2(cond1, dy, dz) == ArrAnd(ArrNot(cond1), ArrNot(ArrGt(dy, dz)))

\* lines 28-29: -(u + v), the coordinate recomputed from the other two
Recomputed_not_negated(u, v) == ArrAdd(u, v)
Recomputed(u, v) == ArrNeg(ArrAdd(u, v))

round_hex(q, r) ==
    LET x == q
        z == r
        y == ArrSub(ArrNeg(x), z)
        rx == np_round(x)
        ry == np_round(y)
        rz == np_round(z)
        dx == np_abs(ArrSub(rx, x))
        dy == np_abs(ArrSub(ry, y))
        dz == np_abs(ArrSub(rz, z))
        cond1 == Cond1(dx, dy, dz)
        qq == np_where(cond1, Recomputed(ry, rz), rx)
        rr == np_where(Cond2(cond1, dy, dz), Recomputed(rx, ry), rz)
    IN <<astype_int(qq), astype_int(rr)>>

-----------------------------------------------------------------------------
(* coords_to_hex: hex_tiles.py lines 33-46 *)

HEX_FLAT == <<Num(2, 0, 3), Rat(0), Num(-1, 0, 3), Num(0, 1, 3)>>
HEX_POINTY == <<Num(0, 1, 3), Num(-1, 0, 3), Rat(0), Num(2, 0, 3)>>

\* line 41
Matrix(orientation) == IF orientation = "flat" THEN HEX_FLAT ELSE HEX_POINTY

\* lines 41-45: the fractional axial coordinates (q, r), before rounding
hex_fraction(x, y, orientation, xs, ys) ==
    LET o == Matrix(orientation)
        xn == ArrDiv(x, xs)
        yn == ArrDiv(ArrNeg(y), ys)
    IN <<ArrAdd(ArrScale(o[1], xn), ArrScale(o[2], yn)),
         ArrAdd(ArrScale(o[3], xn), ArrScale(o[4], yn))>>

coords_to_hex(x, y, orientation, xs, ys) ==
    LET f == hex_fraction(x, y, orientation, xs, ys)
    IN round_hex(f[1], f[2])

-----------------------------------------------------------------------------
(* hex_binning._process: hex_tiles.py lines 65-106                         *)
(*                                                                         *)
(* element: [x, y: arrays of floats, vdims: names,                         *)
(*           range: <<<<x0,x1>>, <<y0,y1>>>>]; the value columns are       *)
(*           drawn where line 97 reads them.                               *)
(* p:       [gridsize, aggregator, orientation]; an int gridsize n is held *)
(*          as <<n>>, a tuple gridsize as <<sx, sy>>; min_count is drawn   *)
(*          where line 104 reads it.                                       *)
(* A table (the aggregate, the returned element) is a set of rows          *)
(*          [q, r, v: one number per value dimension].                     *)

\* lines 71-74
GridPair(gridsize) ==
    IF Len(gridsize) = 2 THEN gridsize ELSE <<gridsize[1], gridsize[1]>>

\* lines 75-76: ((x1-x0)/sx)*(2.0/3.0)
Pitch(r, s) == NMul(NDiv(NSub(r[2], r[1]), Rat(s)), Num(2, 0, 3))

\* line 82
Finite(x, y) == ArrAnd(np_isfinite(x), np_isfinite(y))

\* x[mask]: boolean indexing
RECURSIVE Masked(_, _)
Masked(x, mask) ==
    IF Len(x) = 0 THEN <<>>
    ELSE (IF mask[1] THEN <<x[1]>> ELSE <<>>) \o Masked(Tail(x), Tail(mask))

\* line 90: np.full_like(q, 1)
Ones_zero(q) == Array([i \in 1..Len(q) |-> 0])
Ones(q) == Array([i \in 1..Len(q) |-> 1])

\* line 80: not len(x)
IsEmpty_never(x) == FALSE
IsEmpty(x) == Len(x) = 0

\* line 92: not element.vdims
NoVdims_never(vd) == FALSE
NoVdims(vd) == Len(vd) = 0

\* line 104: self.p.min_count is not None and self.p.min_count > 1
MinCountApplies_never(mc) == FALSE
MinCountApplies_gt2(mc) == mc # None /\ mc[1] > 2
MinCountApplies(mc) == mc # None /\ mc[1] > 1

\* The reductions the aggregator parameter is drawn from.
RECURSIVE SeqSum(_)
SeqSum(s) == IF Len(s) = 0 THEN 0 ELSE s[1] + SeqSum(Tail(s))
SeqMax(s) == CHOOSE m \in {s[i] : i \in 1..Len(s)} : \A i \in 1..Len(s) : s[i] <= m
Reduce(fn, s) ==
    IF fn = "np.sum" THEN SeqSum(s)
    ELSE IF fn = "np.max" THEN SeqMax(s)
    ELSE Len(s)

\* element.clone(data, ...): a table is built from columns of equal length.
ColumnsAgree(cs, vs) ==
    /\ Len(cs[1]) = Len(cs[2])
    /\ \A j \in 1..Len(vs) : Len(vs[j]) = Len(cs[1])

\* .aggregate(function=fn): group the rows by (q, r), reduce each value column.
RowsAt(cs, k) == Array([i \in 1..Len(cs[1]) |-> cs[1][i] = k[1] /\ cs[2][i] = k[2]])
Aggregate(cs, vs, fn) ==
    {[q |-> k[1], r |-> k[2],
      v |-> [j \in 1..Len(vs) |-> Reduce(fn, Masked(vs[j], RowsAt(cs, k)))]] :
        k \in {<<cs[1][i], cs[2][i]>> : i \in 1..Len(cs[1])}}

\* agg[:, :, min_count:]: the rows whose first value is at least min_count
SliceFrom(table, lo) == {row \in table : row.v[1] >= lo}

(* The calls explored *)

MaxSamples == 2
MaxValue == 1
MaxMinCount == 2

Sqrt3 == Num(0, 1, 1)
\* The sample positions: with the range (0, 3) and gridsize 1 the pitch is 2
\* on both axes; (0, 0) and (3, sqrt 3) are then cell centres of the flat
\* grid, (0, 0) and (sqrt 3, 3) cell centres of the pointy grid, (3, 0) lies
\* on a cell border, and two positions have a non-finite coordinate.
Positions ==
    {<<Rat(0), Rat(0)>>, <<Rat(3), Sqrt3>>, <<Sqrt3, Rat(3)>>, <<Rat(3), Rat(0)>>,
     <<NaN, Rat(0)>>, <<Rat(0), NaN>>}
Ranges == {<<<<Rat(0), Rat(3)>>, <<Rat(0), Rat(3)>>>>}
GridSizes == {<<1>>, <<1, 2>>}
Orientations == {"flat", "pointy"}
Aggregators == {"np.size", "np.sum", "np.max"}
MinCounts == {None} \cup {Some(m) : m \in 0..MaxMinCount}
VdimLists == {<<>>, <<"z">>}
\* min_count before line 104 reads it
Unread == <<0, 0>>

\* lines 67-76
DetermineSampling ==
    /\ pc = "start"
    /\ aggregator' = p.aggregator
    /\ xsize' = Some(Pitch(element.range[1], GridPair(p.gridsize)[1]))
    /\ ysize' = Some(Pitch(element.range[2], GridPair(p.gridsize)[2]))
    /\ pc' = "sampled"
    /\ UNCHANGED <<element, p, min_count, coords, vdims, values, agg, ret, exc, rhVars, svVars, exVars, cgVars, ufVars, spVars>>

\* lines 79-81: the empty element is returned as it is
ReturnEmpty ==
    /\ pc = "sampled"
    /\ IsEmpty(element.x)
    /\ ret' = Some({})
    /\ pc' = "done"
    /\ UNCHANGED <<element, p, min_count, xsize, ysize, coords, aggregator, vdims, values,
                   agg, exc, rhVars, svVars, exVars, cgVars, ufVars, spVars>>

\* lines 79-85
ComputeHex ==
    /\ pc = "sampled"
    /\ ~IsEmpty(element.x)
    /\ LET finite == Finite(element.x, element.y)
           x == Masked(element.x, finite)
           y == Masked(element.y, finite)
       IN coords' = coords_to_hex(x, y, p.orientation, xsize[1], ysize[1])
    /\ pc' = "hexed"
    /\ UNCHANGED <<element, p, min_count, xsize, ysize, aggregator, vdims, values, agg, ret,
                   exc, rhVars, svVars, exVars, cgVars, ufVars, spVars>>

\* lines 88-91
CountValues ==
    /\ pc = "hexed"
    /\ aggregator = "np.size"
    /\ aggregator' = "np.sum"
    /\ values' = <<Ones(coords[1])>>
    /\ vdims' = <<"Count">>
    /\ pc' = "valued"
    /\ UNCHANGED <<element, p, min_count, xsize, ysize, coords, agg, ret, exc, rhVars, svVars, exVars, cgVars, ufVars, spVars>>

\* lines 92-94
RaiseNoVdims ==
    /\ pc = "hexed"
    /\ aggregator # "np.size"
    /\ NoVdims(element.vdims)
    /\ exc' = Some("ValueError")
    /\ pc' = "done"
    /\ UNCHANGED <<element, p, min_count, xsize, ysize, coords, aggregator, vdims, values,
                   agg, ret, rhVars, svVars, exVars, cgVars, ufVars, spVars>>

\* lines 95-97; element.dimension_values(vdim) returns one number per sample
\* of the element, whatever the numbers are
ElementValues ==
    /\ pc = "hexed"
    /\ aggregator # "np.size"
    /\ ~NoVdims(element.vdims)
    /\ vdims' = element.vdims
    /\ \E cols \in [1..Len(element.vdims) -> [1..Len(element.x) -> 0..MaxValue]] :
          values' = cols
    /\ pc' = "valued"
    /\ UNCHANGED <<element, p, min_count, xsize, ysize, coords, aggregator, agg, ret, exc,
                   rhVars, svVars, exVars, cgVars, ufVars, spVars>>

\* lines 100-103
ConstructAggregate ==
    /\ pc = "valued"
    /\ ColumnsAgree(coords, values)
    /\ agg' = Some(Aggregate(coords, values, aggregator))
    /\ pc' = "aggregated"
    /\ UNCHANGED <<element, p, min_count, xsize, ysize, coords, aggregator, vdims, values,
                   ret, exc, rhVars, svVars, exVars, cgVars, ufVars, spVars>>

\* lines 100-103, when the columns handed to element.clone differ in length
RaiseDataError ==
    /\ pc = "valued"
    /\ ~ColumnsAgree(coords, values)
    /\ exc' = Some("DataError")
    /\ pc' = "done"
    /\ UNCHANGED <<element, p, min_count, xsize, ysize, coords, aggregator, vdims, values,
                   agg, ret, rhVars, svVars, exVars, cgVars, ufVars, spVars>>

\* lines 104-106; self.p.min_count is read here, and may hold None or a number
ReturnAggregate ==
    /\ pc = "aggregated"
    /\ \E mc \in MinCounts :
          /\ min_count' = mc
          /\ ret' = IF MinCountApplies(mc) THEN Some(SliceFrom(agg[1], mc[1])) ELSE agg
    /\ pc' = "done"
    /\ UNCHANGED <<element, p, xsize, ysize, coords, aggregator, vdims, values, agg, exc,
                   rhVars, svVars, exVars, cgVars, ufVars, spVars>>

Elements ==
    UNION {
        {[x |-> [i \in 1..n |-> pts[i][1]],
          y |-> [i \in 1..n |-> pts[i][2]],
          vdims |-> vd,
          range |-> rg] :
            pts \in [1..n -> Positions], vd \in VdimLists, rg \in Ranges} :
        n \in 0..MaxSamples}

Params == [gridsize : GridSizes, aggregator : Aggregators, orientation : Orientations]

RHIdle ==
    /\ rpc = "idle"
    /\ fq = None
    /\ fr = None
    /\ cells = None

\* save is not running: its frame holds nothing and it has touched no file.
SaveIdle ==
    /\ spc = "idle"
    /\ args = None
    /\ obj = None
    /\ plotclass = None
    /\ plot = None
    /\ fmt = None
    /\ filename = None
    /\ files = {}
    /\ raised = None

\* No Export method is running; the class attributes have their defaults.
ExportIdle ==
    /\ xpc = "idle"
    /\ xcall = None
    /\ SHA = None
    /\ SHA_mode = 0
    /\ xfilename = None
    /\ xdata = None
    /\ written = {}
    /\ xraised = None

\* No CoordinateGridPlot is being drawn.
GridIdle ==
    /\ gpc = "idle"
    /\ grid_shape = None
    /\ borders = None
    /\ gx = None
    /\ gy = None
    /\ gw = None
    /\ ci = 0
    /\ vi = 0
    /\ projs = <<>>

\* No plot is being scrubbed.
FramesIdle ==
    /\ plotkind = "none"
    /\ stack_len = 0
    /\ layer_plots = <<>>
    /\ shown = <<>>
    /\ last_n = None
    /\ ncalls = 0

\* No SheetPlot is being drawn.
SheetIdle ==
    /\ kpc = "idle"
    /\ stacks = <<>>
    /\ style_groups = <<>>
    /\ zorder = 0
    /\ plots = <<>>
    /\ kraised = None

\* hex_binning(element, **params) is called
Init ==
    /\ pc = "start"
    /\ element \in Elements
    /\ p \in Params
    /\ min_count = Unread
    /\ xsize = None
    /\ ysize = None
    /\ coords = None
    /\ aggregator = None
    /\ vdims = None
    /\ values = None
    /\ agg = None
    /\ ret = None
    /\ exc = None
    /\ RHIdle
    /\ SaveIdle
    /\ ExportIdle
    /\ GridIdle
    /\ FramesIdle
    /\ SheetIdle

Next ==
    \/ DetermineSampling
    \/ ReturnEmpty
    \/ ComputeHex
    \/ CountValues
    \/ RaiseNoVdims
    \/ ElementValues
    \/ ConstructAggregate
    \/ RaiseDataError
    \/ ReturnAggregate

Spec == Init /\ [][Next]_vars

-----------------------------------------------------------------------------
(* What the properties of hex_binning are stated against: the samples of   *)
(* the element and the cell each of them rounds to on its own.             *)

FinitePositions == {pos \in Positions : pos[1].d # 0 /\ pos[2].d # 0}

\* The fractional axial coordinates of one finite sample, and the cell it
\* rounds to (tabulated once over the positions and grids explored).
FractionTable ==
    [c \in FinitePositions \X Orientations \X Ranges \X GridSizes |->
        LET f == hex_fraction(<<c[1][1]>>, <<c[1][2]>>, c[2],
                              Pitch(c[3][1], GridPair(c[4])[1]),
                              Pitch(c[3][2], GridPair(c[4])[2]))
        IN <<f[1][1], f[2][1]>>]
CellTable ==
    [c \in FinitePositions \X Orientations \X Ranges \X GridSizes |->
        LET h == coords_to_hex(<<c[1][1]>>, <<c[1][2]>>, c[2],
                               Pitch(c[3][1], GridPair(c[4])[1]),
                               Pitch(c[3][2], GridPair(c[4])[2]))
        IN <<h[1][1], h[2][1]>>]

Samples == 1..Len(element.x)
FiniteSamples == {i \in Samples : element.x[i].d # 0 /\ element.y[i].d # 0}
FractionOf(i) == FractionTable[<<<<element.x[i], element.y[i]>>, p.orientation,
                                 element.range, p.gridsize>>]
CellOf(i) == CellTable[<<<<element.x[i], element.y[i]>>, p.orientation,
                         element.range, p.gridsize>>]
OccupiedCells == {CellOf(i) : i \in FiniteSamples}
SamplesIn(k) == {i \in FiniteSamples : CellOf(i) = k}

RECURSIVE SumOfCounts(_)
SumOfCounts(table) ==
    IF table = {} THEN 0
    ELSE LET row == CHOOSE row \in table : TRUE
         IN row.v[1] + SumOfCounts(table \ {row})

Returned == pc = "done" /\ ret # None
MinCountRead == min_count # Unread
MinCountSet == min_count # Unread /\ min_count # None

\* C1: with a supplied aggregator on an element with value dimensions the
\* call returns a table, and every row of it holds, for every value
\* dimension, the reduction of the values of exactly the finite samples that
\* round to the row's cell (taken in sample order): the pairing of a
\* sample's coordinates with its values survives the discarding of
\* non-finite samples.
C1_PairingPreserved ==
    (pc = "done" /\ p.aggregator # "np.size" /\ element.vdims # <<>>) =>
        /\ exc = None
        /\ ret # None
        /\ \A row \in ret[1] :
              /\ <<row.q, row.r>> \in OccupiedCells
              /\ \A j \in 1..Len(element.vdims) :
                    row.v[j] = Reduce(p.aggregator,
                                      Masked(values[j],
                                             [i \in Samples |->
                                                 i \in SamplesIn(<<row.q, row.r>>)]))

\* C2: with the count aggregator and no min_count the returned table has
\* exactly one row per cell that a finite sample rounds to, the row's count
\* is the number of finite samples rounding to that cell, and the counts sum
\* to the number of finite samples: a non-finite sample is counted nowhere.
C2_CountPerCell ==
    (pc = "done" /\ p.aggregator = "np.size" /\ min_count \in {None, Unread}) =>
        /\ exc = None
        /\ ret # None
        /\ ret[1] = {[q |-> k[1], r |-> k[2], v |-> <<Cardinality(SamplesIn(k))>>] :
                        k \in OccupiedCells}
        /\ SumOfCounts(ret[1]) = Cardinality(FiniteSamples)

\* C2 witness: two samples, one of them non-finite: one row, of count 1.
C2_Witness ==
    /\ Returned
    /\ p.aggregator = "np.size"
    /\ min_count = None
    /\ Len(element.x) = 2
    /\ Cardinality(FiniteSamples) = 1
    /\ \E row \in ret[1] : ret[1] = {row} /\ row.v = <<1>>

\* C3: an element with no samples is returned as an empty table, without an
\* error, whatever the gridsize, orientation, aggregator and value
\* dimensions; nothing was binned, no values were fetched, nothing was
\* aggregated and min_count was not consulted.
C3_EmptyReturnsEmpty ==
    (pc = "done" /\ Len(element.x) = 0) =>
        /\ ret = Some({})
        /\ exc = None
        /\ coords = None
        /\ vdims = None
        /\ values = None
        /\ agg = None
        /\ min_count = Unread

\* C3 witness: the empty element, without value dimensions, under a supplied
\* aggregator and a tuple gridsize, has been returned empty.
C3_Witness ==
    /\ pc = "done"
    /\ Len(element.x) = 0
    /\ element.vdims = <<>>
    /\ p.aggregator = "np.sum"
    /\ p.gridsize = <<1, 2>>
    /\ ret = Some({})

\* C4 as stated: on every element without value dimensions a supplied
\* aggregator makes the call fail with ValueError and return no table.
C4_NoVdimsAlwaysRaises ==
    (pc = "done" /\ element.vdims = <<>> /\ p.aggregator # "np.size") =>
        /\ exc = Some("ValueError")
        /\ ret = None

\* C4 amended: on every element with at least one sample and without value
\* dimensions a supplied aggregator makes the call fail with ValueError: no
\* values are fetched, nothing is aggregated, no table is returned.
C4_NoVdimsRaisesUnlessEmpty ==
    (Len(element.x) > 0 /\ element.vdims = <<>> /\ p.aggregator # "np.size") =>
        /\ values = None
        /\ agg = None
        /\ ret = None
        /\ pc = "done" => exc = Some("ValueError")

\* C4 witness: the call has raised ValueError on an element with samples.
C4_Witness ==
    /\ pc = "done"
    /\ Len(element.x) > 0
    /\ element.vdims = <<>>
    /\ p.aggregator = "np.max"
    /\ exc = Some("ValueError")
    /\ ret = None

\* C5 as stated: whenever min_count is set, for every aggregator, no
\* returned row has a first value below min_count and every aggregate row
\* whose first value is at least min_count is returned.
C5_MinCountAlwaysBounds ==
    (Returned /\ agg # None /\ MinCountSet) =>
        /\ \A row \in ret[1] : row.v[1] >= min_count[1]
        /\ \A row \in agg[1] : row.v[1] >= min_count[1] => row \in ret[1]

\* C5 amended: the same, when min_count is greater than 1 (any aggregator)
\* or the aggregator is the count default (any min_count).
C5_MinCountBounds ==
    (Returned /\ agg # None /\ MinCountSet
        /\ (min_count[1] > 1 \/ p.aggregator = "np.size")) =>
        /\ \A row \in ret[1] : row.v[1] >= min_count[1]
        /\ \A row \in agg[1] : row.v[1] >= min_count[1] => row \in ret[1]

\* C5 witness: the bound is inclusive: a cell counting exactly min_count = 2
\* samples is returned.
C5_Witness ==
    /\ Returned
    /\ p.aggregator = "np.size"
    /\ min_count = Some(2)
    /\ \E row \in ret[1] : row.v[1] = 2

\* C6: with min_count greater than 1 the returned rows are exactly the
\* aggregate rows whose first value is at least min_count, unchanged; with
\* min_count absent every aggregate row is returned.
C6_MinCountFilter ==
    (pc = "done" /\ agg # None /\ MinCountRead) =>
        /\ ret # None
        /\ (min_count # None /\ min_count[1] > 1) =>
              ret[1] = {row \in agg[1] : row.v[1] >= min_count[1]}
        /\ min_count = None => ret = agg

\* C6 witness: under min_count = 2 and a supplied aggregator a cell of value
\* 1 has been dropped from a table of two cells.
C6_Witness ==
    /\ Returned
    /\ min_count = Some(2)
    /\ p.aggregator # "np.size"
    /\ Cardinality(agg[1]) = 2
    /\ \E row \in agg[1] : row.v[1] = 1 /\ row \notin ret[1]

\* Every sample is finite and sits exactly at the centre of a cell of its
\* own: its fractional axial coordinates are integers, and no two samples
\* share them.
IsInteger(u) == u.b = 0 /\ u.d = 1
AtDistinctCentres ==
    /\ Len(element.x) > 0
    /\ FiniteSamples = Samples
    /\ \A i \in Samples : IsInteger(FractionOf(i)[1]) /\ IsInteger(FractionOf(i)[2])
    /\ \A i, j \in Samples : FractionOf(i) = FractionOf(j) => i = j
Centres == {<<FractionOf(i)[1].a, FractionOf(i)[2].a>> : i \in Samples}

\* C9 as stated: samples at the centres of pairwise distinct cells come back
\* under the count aggregator as exactly those cells, each with count 1.
C9_CentresRoundTripAlways ==
    (pc = "done" /\ p.aggregator = "np.size" /\ AtDistinctCentres) =>
        /\ ret # None
        /\ ret[1] = {[q |-> k[1], r |-> k[2], v |-> <<1>>] : k \in Centres}

\* C9 amended: the same, when min_count is absent or not greater than 1.
C9_CentresRoundTrip ==
    (pc = "done" /\ p.aggregator = "np.size" /\ AtDistinctCentres
        /\ (min_count = None \/ min_count[1] <= 1)) =>
        /\ ret # None
        /\ ret[1] = {[q |-> k[1], r |-> k[2], v |-> <<1>>] : k \in Centres}

\* C9 witness: two samples at the centres (0, 0) and (1, -1), in either
\* orientation, have come back as those two cells.
C9_Witness ==
    /\ Returned
    /\ p.aggregator = "np.size"
    /\ AtDistinctCentres
    /\ Centres = {<<0, 0>>, <<1, -1>>}
    /\ ret[1] = {[q |-> 0, r |-> 0, v |-> <<1>>], [q |-> 1, r |-> -1, v |-> <<1>>]}

-----------------------------------------------------------------------------
(* hex_binning._process is not running: its frame holds nothing. *)

HBIdle ==
    /\ pc = "idle"
    /\ element = None
    /\ p = None
    /\ min_count = Unread
    /\ xsize = None
    /\ ysize = None
    /\ coords = None
    /\ aggregator = None
    /\ vdims = None
    /\ values = None
    /\ agg = None
    /\ ret = None
    /\ exc = None

-----------------------------------------------------------------------------
(* Specification SpecRoundHex: round_hex applied to one-element arrays of  *)
(* fractional axial coordinates (a + b*sqrt(3)) / d.                       *)

MaxNum == 4
MaxDen == 3
IrrationalParts == {-1, 0, 1}

Fractions ==
    {Num(a, b, d) : a \in -MaxNum..MaxNum, b \in IrrationalParts, d \in 1..MaxDen}

InitRoundHex ==
    /\ rpc = "call"
    /\ fq \in {<<u>> : u \in Fractions}
    /\ fr \in {<<u>> : u \in Fractions}
    /\ cells = None
    /\ HBIdle
    /\ SaveIdle
    /\ ExportIdle
    /\ GridIdle
    /\ FramesIdle
    /\ SheetIdle

CallRoundHex ==
    /\ rpc = "call"
    /\ cells' = Some(round_hex(fq, fr))
    /\ rpc' = "done"
    /\ UNCHANGED <<fq, fr, hbVars, svVars, exVars, cgVars, ufVars, spVars>>

NextRoundHex == CallRoundHex

SpecRoundHex == InitRoundHex /\ [][NextRoundHex]_vars

\* The cell returned for the i-th input, as a pair (Q, R).
CellAt(i) == <<cells[1][1][i], cells[1][2][i]>>

\* The squared cube-coordinate distance from the fractional point (q, r),
\* cube (q, -q-r, r), to the integer cell (Q, R), cube (Q, -Q-R, R).
Sq(u) == NMul(u, u)
CubeDist2(q, r, Q, R) ==
    NAdd(NAdd(Sq(NSub(q, Rat(Q))),
              Sq(NSub(NNeg(NAdd(q, r)), Rat(-Q - R)))),
         Sq(NSub(r, Rat(R))))

\* The integers within distance 2 of u.  A cell (Q, R) with |Q - q| >= 2 or
\* |R - r| >= 2 lies at squared cube distance >= 6 from (q, r), and the cell
\* (floor q, floor r), which is within the window, lies at less than 6: a
\* cell that is no farther than every cell of the window is no farther than
\* any cell at all.
Near(u) == (NFloor(u) - 1)..(NFloor(u) + 2)

\* C7: round_hex returns a nearest hex cell: no integer cube triple with
\* x+y+z=0 is strictly closer (squared cube distance) to the input point
\* than the returned cell.
C7_RoundHexNearest ==
    rpc = "done" =>
        \A i \in 1..Len(fq) :
            \A Q \in Near(fq[i]) : \A R \in Near(fr[i]) :
                ~NGt(CubeDist2(fq[i], fr[i], CellAt(i)[1], CellAt(i)[2]),
                     CubeDist2(fq[i], fr[i], Q, R))

\* C7 witness: round_hex has returned the cell (1, 0) for the point
\* (2/3, 2/3), a corner shared by the cells (1, 0), (0, 1) and (1, 1).
C7_Witness ==
    /\ rpc = "done"
    /\ fq = <<Num(2, 0, 3)>>
    /\ fr = <<Num(2, 0, 3)>>
    /\ CellAt(1) = <<1, 0>>

\* The ordered nested-conditional reference for one point: the three
\* independent roundings, their errors, and the cell chosen.
RefRound(q, r) ==
    LET x == q
        z == r
        y == NNeg(NAdd(x, z))
        rx == round_half_even(x).a
        ry == round_half_even(y).a
        rz == round_half_even(z).a
        dx == NAbs(NSub(Rat(rx), x))
        dy == NAbs(NSub(Rat(ry), y))
        dz == NAbs(NSub(Rat(rz), z))
    IN [rnd |-> <<rx, ry, rz>>,
        err |-> <<dx, dy, dz>>,
        cell |-> IF NGt(dx, dy) /\ NGt(dx, dz) THEN <<-(ry + rz), rz>>
                 ELSE IF NGt(dy, dz) THEN <<rx, rz>>
                 ELSE <<rx, -(rx + ry)>>]

\* C8: the array formulation of round_hex equals the ordered nested
\* conditional on every input, ties included; and the returned cube triple
\* keeps two of the three independent roundings and recomputes the third,
\* which is a coordinate whose rounding error is largest.
C8_RoundHexMatchesReference ==
    rpc = "done" =>
        \A i \in 1..Len(fq) :
            LET ref == RefRound(fq[i], fr[i])
                cube == <<CellAt(i)[1], -CellAt(i)[1] - CellAt(i)[2], CellAt(i)[2]>>
            IN /\ CellAt(i) = ref.cell
               /\ \E c \in 1..3 :
                    /\ \A k \in (1..3) \ {c} : cube[k] = ref.rnd[k]
                    /\ \A k \in 1..3 : ~NGt(ref.err[k], ref.err[c])

\* C8 witness: an exact tie dx = dz = 1/2 > dy = 0 at the point (1/2, 1/2):
\* neither strict test holds and r is recomputed, giving the cell (0, 1).
C8_Witness ==
    /\ rpc = "done"
    /\ fq = <<Num(1, 0, 2)>>
    /\ fr = <<Num(1, 0, 2)>>
    /\ CellAt(1) = <<0, 1>>

-----------------------------------------------------------------------------
(* save(obj, basename, fmt, fig_default, holomap_default, ..., save_options) *)
(* Specification SpecSave: one call of save, from its arguments to the     *)
(* file it writes or the exception it raises.  A file name is the pair     *)
(* <<stem, extension>>; size, dpi and fps select no branch and are left    *)
(* out.                                                                    *)

animation_formats == <<"webm", "h264", "gif">>
figure_formats == <<"png", "svg">>
formats == animation_formats \o figure_formats

\* x in list
In(x, list) == \E i \in 1..Len(list) : list[i] = x

\* isinstance(save_options, SaveOptions); the argument is modelled by the
\* name of its type.
IsSaveOptions(so) == so = "SaveOptions"

\* Layout.from_values(obj) for an AdjointLayout, obj itself otherwise; an
\* object is modelled by the name of its type.
FromValues(o) == IF o = "AdjointLayout" THEN "Layout" ELSE o

\* Store.defaults: the plot class registered for each type of object.
StoreDefaults ==
    [t \in {"Image", "HoloMap", "Layout"} |->
        IF t = "Layout" THEN "LayoutPlot" ELSE "RasterPlot"]

\* len(plot) > 1
MultiFrame_ge1(n) == n >= 1
MultiFrame(n) == n > 1

\* lines 211-212: the format after the default has been filled in
ResolveFormat(f, n, fig_default, holomap_default) ==
    IF f = None
    THEN Some(IF MultiFrame(n) THEN holomap_default ELSE fig_default)
    ELSE f

\* save_options.filename(obj, fmt): a generated stem with fmt as extension
AutoFilename(o, f) == <<"auto", f>>

MaxFrames == 2
ObjectTypes == {"Image", "HoloMap", "AdjointLayout", "str"}
FormatNames == {"webm", "h264", "gif", "png", "svg", "pdf", "scrubber"}
FigDefaults == {"svg", "png", "pdf"}
HolomapDefaults == {"gif", "webm", "scrubber"}
SaveOptionsTypes == {"SaveOptions", "NoneType"}
Basenames == {None, Some("out")}

SaveArgs ==
    [obj : ObjectTypes, basename : Basenames,
     fmt : {None} \cup {Some(f) : f \in FormatNames},
     fig_default : FigDefaults, holomap_default : HolomapDefaults,
     save_options : SaveOptionsTypes]

\* save(...) is called
InitSave ==
    /\ spc = "start"
    /\ args \in SaveArgs
    /\ obj = Some(args.obj)
    /\ plotclass = None
    /\ plot = None
    /\ fmt = args.fmt
    /\ filename = None
    /\ files = {}
    /\ raised = None
    /\ RHIdle
    /\ HBIdle
    /\ ExportIdle
    /\ GridIdle
    /\ FramesIdle
    /\ SheetIdle

\* lines 199-200
RaiseNotSaveOptions ==
    /\ spc = "start"
    /\ ~IsSaveOptions(args.save_options)
    /\ raised' = Some("Exception")
    /\ spc' = "done"
    /\ UNCHANGED <<args, obj, plotclass, plot, fmt, filename, files, rhVars, hbVars, exVars, cgVars, ufVars, spVars>>

\* lines 199-207, a plot class is registered for type(obj)
LookupPlotClass ==
    /\ spc = "start"
    /\ IsSaveOptions(args.save_options)
    /\ FromValues(obj[1]) \in DOMAIN StoreDefaults
    /\ obj' = Some(FromValues(obj[1]))
    /\ plotclass' = Some(StoreDefaults[FromValues(obj[1])])
    /\ spc' = "looked_up"
    /\ UNCHANGED <<args, plot, fmt, filename, files, raised, rhVars, hbVars, exVars, cgVars, ufVars, spVars>>

\* lines 199-207, the lookup raises KeyError
RaiseNoPlotType ==
    /\ spc = "start"
    /\ IsSaveOptions(args.save_options)
    /\ FromValues(obj[1]) \notin DOMAIN StoreDefaults
    /\ obj' = Some(FromValues(obj[1]))
    /\ raised' = Some("Exception")
    /\ spc' = "done"
    /\ UNCHANGED <<args, plotclass, plot, fmt, filename, files, rhVars, hbVars, exVars, cgVars, ufVars, spVars>>

\* line 209: the plot is built; it has some number of frames
ConstructPlot ==
    /\ spc = "looked_up"
    /\ \E n \in 1..MaxFrames : plot' = Some(n)
    /\ spc' = "plotted"
    /\ UNCHANGED <<args, obj, plotclass, fmt, filename, files, raised, rhVars, hbVars, exVars, cgVars, ufVars, spVars>>

\* lines 211-214, the format is one of formats
SelectFormat ==
    /\ spc = "plotted"
    /\ LET f == ResolveFormat(fmt, plot[1], args.fig_default, args.holomap_default)
       IN /\ In(f[1], formats)
          /\ fmt' = f
    /\ spc' = "formatted"
    /\ UNCHANGED <<args, obj, plotclass, plot, filename, files, raised, rhVars, hbVars, exVars, cgVars, ufVars, spVars>>

\* lines 211-214, the format is not one of formats
RaiseBadFormat ==
    /\ spc = "plotted"
    /\ LET f == ResolveFormat(fmt, plot[1], args.fig_default, args.holomap_default)
       IN /\ ~In(f[1], formats)
          /\ fmt' = f
    /\ raised' = Some("ValueError")
    /\ spc' = "done"
    /\ UNCHANGED <<args, obj, plotclass, plot, filename, files, rhVars, hbVars, exVars, cgVars, ufVars, spVars>>

\* lines 216-222
SelectFilename ==
    /\ spc = "formatted"
    /\ IF args.basename # None
       THEN /\ filename' = Some(<<args.basename[1], fmt[1]>>)
            /\ spc' = "named"
            /\ UNCHANGED raised
       ELSE IF args.save_options = "NoneType"
       THEN /\ raised' = Some("Exception")
            /\ spc' = "done"
            /\ UNCHANGED filename
       ELSE /\ filename' = Some(AutoFilename(obj[1], fmt[1]))
            /\ spc' = "named"
            /\ UNCHANGED raised
    /\ UNCHANGED <<args, obj, plotclass, plot, fmt, files, rhVars, hbVars, exVars, cgVars, ufVars, spVars>>

\* lines 224-230: anim.save writes the animation to filename
SaveAnimation ==
    /\ spc = "named"
    /\ In(fmt[1], animation_formats)
    /\ files' = files \cup {filename[1]}
    /\ spc' = "done"
    /\ UNCHANGED <<args, obj, plotclass, plot, fmt, filename, raised, rhVars, hbVars, exVars, cgVars, ufVars, spVars>>

\* lines 231-238: the figure is printed to the file opened for writing
SaveFigure ==
    /\ spc = "named"
    /\ ~In(fmt[1], animation_formats)
    /\ files' = files \cup {filename[1]}
    /\ spc' = "done"
    /\ UNCHANGED <<args, obj, plotclass, plot, fmt, filename, raised, rhVars, hbVars, exVars, cgVars, ufVars, spVars>>

NextSave ==
    \/ RaiseNotSaveOptions
    \/ LookupPlotClass
    \/ RaiseNoPlotType
    \/ ConstructPlot
    \/ SelectFormat
    \/ RaiseBadFormat
    \/ SelectFilename
    \/ SaveAnimation
    \/ SaveFigure

SpecSave == InitSave /\ [][NextSave]_vars

\* save has finished: it returned or raised.
SaveDone == spc = "done"

\* The format save ended up with is known and is none of the five accepted.
BadFormat == fmt # None /\ fmt[1] \notin {"webm", "h264", "gif", "png", "svg"}

\* The arguments passed the checks made before the format is looked at:
\* save_options is a SaveOptions instance and a plot class was found.
SaveAccepted == args.save_options = "SaveOptions" /\ plotclass # None

\* C10 as stated: when fmt is not given the format used is holomap_default
\* for a plot of more than one frame and fig_default otherwise; and whenever
\* the given or resulting format is not one of webm, h264, gif, png, svg,
\* save raises ValueError and no file is opened or written.
C10_BadFormatAlwaysValueError ==
    SaveDone =>
        /\ (args.fmt = None /\ plot # None) =>
               fmt = Some(IF plot[1] > 1 THEN args.holomap_default ELSE args.fig_default)
        /\ BadFormat => (raised = Some("ValueError") /\ files = {})

\* C10, amended: the default format is chosen as stated; a format that is
\* not one of the five never has a file opened or written; and save raises
\* ValueError for it provided save_options is a SaveOptions instance and a
\* plot type is registered for obj (otherwise a plain Exception is raised
\* before the format is looked at).
C10_BadFormatValueError ==
    /\ (BadFormat => files = {})
    /\ SaveDone =>
        /\ (args.fmt = None /\ plot # None) =>
               fmt = Some(IF plot[1] > 1 THEN args.holomap_default ELSE args.fig_default)
        /\ (args.fmt # None) => fmt = args.fmt
        /\ (BadFormat /\ SaveAccepted) =>
               (raised = Some("ValueError") /\ files = {} /\ filename = None)
        /\ (BadFormat /\ ~SaveAccepted) => raised = Some("Exception")

\* save called without fmt on a two-frame plot whose holomap_default is not
\* an accepted format: ValueError, nothing written.
C10_Witness ==
    /\ SaveDone
    /\ args.fmt = None
    /\ plot = Some(2)
    /\ args.holomap_default = "scrubber"
    /\ fmt = Some("scrubber")
    /\ raised = Some("ValueError")
    /\ files = {}

-----------------------------------------------------------------------------
(* Export.save_fig / Export.save_anim: __init__.py lines 44-131            *)
(* Specification SpecExport: one call of save_fig or save_anim under some  *)
(* Export.SHA_mode.  Rendered data is the triple <<kind, what, fmt>>, a    *)
(* digest the pair <<"sha256", data>>.                                     *)

\* sha256().update(data).hexdigest()
sha256(data) == <<"sha256", data>>

\* lines 119-131: the new Export.SHA and the value returned
digest(mode, data) ==
    [SHA |-> IF mode # 0 THEN Some(sha256(data)) ELSE None, returns |-> mode]

\* lines 94-116: svg data is decoded to text
figure_data(f) == <<IF f = "svg" THEN "text" ELSE "bytes", "figure", f>>

\* what anim.save(...) writes to the file it is given
AnimSaved(f) == <<"bytes", "anim", f>>

\* line 86: hasattr(anim, '_encoded_video')
HasEncodedVideo(call) == call.encoded

\* lines 57-59 and 69-71: `basename` counts when it is truthy
ExportFilename(basename, f, auto) ==
    IF basename # None /\ basename[1] # ""
    THEN Some(<<basename[1], f>>)
    ELSE IF auto THEN Some(AutoFilename("Export.obj", f)) ELSE None

ExportCalls ==
    [method : {"save_fig", "save_anim"},
     basename : {None, Some(""), Some("out")},
     auto : BOOLEAN,
     fmt : {"png", "svg", "gif"},
     encoded : BOOLEAN]
ShaModes == {0, 1, 2}
StaleSHA == Some(sha256(<<"bytes", "figure", "earlier">>))

\* Export.save_fig(...) or Export.save_anim(...) is called
InitExport ==
    /\ xpc = "start"
    /\ xcall \in ExportCalls
    /\ SHA \in {None, StaleSHA}
    /\ SHA_mode \in ShaModes
    /\ xfilename = None
    /\ xdata = None
    /\ written = {}
    /\ xraised = None
    /\ RHIdle
    /\ HBIdle
    /\ SaveIdle
    /\ GridIdle
    /\ FramesIdle
    /\ SheetIdle

\* lines 57-60 and 69-72: no file name, the call returns
ReturnNoFilename ==
    /\ xpc = "start"
    /\ ExportFilename(xcall.basename, xcall.fmt, xcall.auto) = None
    /\ xpc' = "done"
    /\ UNCHANGED <<xcall, SHA, SHA_mode, xfilename, xdata, written, xraised,
                   rhVars, hbVars, svVars, cgVars, ufVars, spVars>>

\* save_fig, lines 57-63: figure rendered and digested, SHA_mode is 1
SaveFigDigestOnly ==
    /\ xpc = "start"
    /\ xcall.method = "save_fig"
    /\ ExportFilename(xcall.basename, xcall.fmt, xcall.auto) # None
    /\ digest(SHA_mode, figure_data(xcall.fmt)).returns = 1
    /\ xfilename' = ExportFilename(xcall.basename, xcall.fmt, xcall.auto)
    /\ xdata' = Some(figure_data(xcall.fmt))
    /\ SHA' = digest(SHA_mode, figure_data(xcall.fmt)).SHA
    /\ xpc' = "done"
    /\ UNCHANGED <<xcall, SHA_mode, written, xraised, rhVars, hbVars, svVars, cgVars, ufVars, spVars>>

\* save_fig, lines 57-65: figure rendered, digested and written
SaveFigWrite ==
    /\ xpc = "start"
    /\ xcall.method = "save_fig"
    /\ ExportFilename(xcall.basename, xcall.fmt, xcall.auto) # None
    /\ digest(SHA_mode, figure_data(xcall.fmt)).returns # 1
    /\ xfilename' = ExportFilename(xcall.basename, xcall.fmt, xcall.auto)
    /\ xdata' = Some(figure_data(xcall.fmt))
    /\ SHA' = digest(SHA_mode, figure_data(xcall.fmt)).SHA
    /\ written' = written \cup {<<xfilename'[1], figure_data(xcall.fmt)>>}
    /\ xpc' = "done"
    /\ UNCHANGED <<xcall, SHA_mode, xraised, rhVars, hbVars, svVars, cgVars, ufVars, spVars>>

\* save_anim, lines 69-74: SHA_mode is 0, anim.save writes the file
SaveAnimDirect ==
    /\ xpc = "start"
    /\ xcall.method = "save_anim"
    /\ ExportFilename(xcall.basename, xcall.fmt, xcall.auto) # None
    /\ SHA_mode = 0
    /\ xfilename' = ExportFilename(xcall.basename, xcall.fmt, xcall.auto)
    /\ written' = written \cup {<<xfilename'[1], AnimSaved(xcall.fmt)>>}
    /\ xpc' = "done"
    /\ UNCHANGED <<xcall, SHA, SHA_mode, xdata, xraised, rhVars, hbVars, svVars, cgVars, ufVars, spVars>>

\* save_anim, lines 69-76 and 82-90: anim_data renders the animation
AnimData ==
    /\ xpc = "start"
    /\ xcall.method = "save_anim"
    /\ ExportFilename(xcall.basename, xcall.fmt, xcall.auto) # None
    /\ SHA_mode # 0
    /\ ~HasEncodedVideo(xcall)
    /\ xfilename' = ExportFilename(xcall.basename, xcall.fmt, xcall.auto)
    /\ xdata' = Some(AnimSaved(xcall.fmt))
    /\ xpc' = "rendered"
    /\ UNCHANGED <<xcall, SHA, SHA_mode, written, xraised, rhVars, hbVars, svVars, cgVars, ufVars, spVars>>

\* save_anim, lines 69-76 and 82-90: the animation has _encoded_video, so
\* line 90 returns the local `video` that was never assigned
AnimDataUnbound ==
    /\ xpc = "start"
    /\ xcall.method = "save_anim"
    /\ ExportFilename(xcall.basename, xcall.fmt, xcall.auto) # None
    /\ SHA_mode # 0
    /\ HasEncodedVideo(xcall)
    /\ xfilename' = ExportFilename(xcall.basename, xcall.fmt, xcall.auto)
    /\ xraised' = Some("UnboundLocalError")
    /\ xpc' = "done"
    /\ UNCHANGED <<xcall, SHA, SHA_mode, xdata, written, rhVars, hbVars, svVars, cgVars, ufVars, spVars>>

\* save_anim, line 77: digested, SHA_mode is 1
SaveAnimDigestOnly ==
    /\ xpc = "rendered"
    /\ digest(SHA_mode, xdata[1]).returns = 1
    /\ SHA' = digest(SHA_mode, xdata[1]).SHA
    /\ xpc' = "done"
    /\ UNCHANGED <<xcall, SHA_mode, xfilename, xdata, written, xraised,
                   rhVars, hbVars, svVars, cgVars, ufVars, spVars>>

\* save_anim, lines 77-79: digested and written
SaveAnimWrite ==
    /\ xpc = "rendered"
    /\ digest(SHA_mode, xdata[1]).returns # 1
    /\ SHA' = digest(SHA_mode, xdata[1]).SHA
    /\ written' = written \cup {<<xfilename[1], xdata[1]>>}
    /\ xpc' = "done"
    /\ UNCHANGED <<xcall, SHA_mode, xfilename, xdata, xraised, rhVars, hbVars, svVars, cgVars, ufVars, spVars>>

NextExport ==
    \/ ReturnNoFilename
    \/ SaveFigDigestOnly
    \/ SaveFigWrite
    \/ SaveAnimDirect
    \/ AnimData
    \/ AnimDataUnbound
    \/ SaveAnimDigestOnly
    \/ SaveAnimWrite

SpecExport == InitExport /\ [][NextExport]_vars

\* The data the call renders, and the file name it resolves.
Rendered ==
    IF xcall.method = "save_fig"
    THEN <<IF xcall.fmt = "svg" THEN "text" ELSE "bytes", "figure", xcall.fmt>>
    ELSE <<"bytes", "anim", xcall.fmt>>
ExportDone == xpc = "done" /\ xfilename # None

\* C11: for a finished save_fig or save_anim call in which a file name is
\* resolved: under SHA_mode 1 Export.SHA is the SHA-256 digest of the
\* rendered data and no file is written; under SHA_mode 2 Export.SHA is that
\* digest and the file is written with the rendered data; under SHA_mode 0
\* the file is written and Export.SHA is not a digest of the rendered data.
C11_ShaModes ==
    ExportDone =>
        /\ SHA_mode = 1 => (SHA = <<<<"sha256", Rendered>>>> /\ written = {})
        /\ SHA_mode = 2 =>
              (SHA = <<<<"sha256", Rendered>>>> /\ written = {<<xfilename[1], Rendered>>})
        /\ SHA_mode = 0 =>
              (SHA # <<<<"sha256", Rendered>>>> /\ written = {<<xfilename[1], Rendered>>})

-----------------------------------------------------------------------------
(* CoordinateGridPlot.__call__ / _compute_borders:                         *)
(* src/dataviews/plotting/sheetplots.py lines 181-208 and 238-256.         *)
(* Specification SpecGrid: one call of __call__ on a grid whose views are  *)
(* grouped by the first coordinate of their key (grid_shape, line 182).    *)
(* A view is the record [w, h] that _get_dims returns for it; sizes are    *)
(* floats, held exactly as fractions.                                      *)

RECURSIVE SumDims(_, _)
\* the running sums of lines 239-249 over a list of views
SumDims(views, dim) ==
    IF Len(views) = 0 THEN Rat(0)
    ELSE NAdd(IF dim = "h" THEN views[1].h ELSE views[1].w, SumDims(Tail(views), dim))

\* line 247: [row[0] for row in grid_shape]
FirstOfEach(shape) == Array([k \in 1..Len(shape) |-> shape[k][1]])

\* lines 238-256
compute_borders(shape) ==
    LET height == SumDims(shape[1], "h")
        rows == Len(shape[1])
        width == SumDims(FirstOfEach(shape), "w")
        cols == Len(shape)
    IN [width |-> NAdd(width, NDiv(width, Rat(10))),
        height |-> NAdd(height, NDiv(height, Rat(10))),
        b_w |-> NDiv(NDiv(width, Rat(10)), Rat(cols + 1)),
        b_h |-> NDiv(NDiv(height, Rat(10)), Rat(rows + 1))]

MaxCols == 2
MaxRows == 2
ViewDims == {Rat(1), Rat(3)}
Views == [w : ViewDims, h : ViewDims]
Groups == UNION {[1..n -> Views] : n \in 1..MaxRows}
GridShapes == UNION {[1..n -> Groups] : n \in 1..MaxCols}

\* plot(axis) is called
InitGrid ==
    /\ gpc = "start"
    /\ grid_shape \in GridShapes
    /\ borders = None
    /\ gx = None
    /\ gy = None
    /\ gw = None
    /\ ci = 0
    /\ vi = 0
    /\ projs = <<>>
    /\ RHIdle
    /\ HBIdle
    /\ SaveIdle
    /\ ExportIdle
    /\ FramesIdle
    /\ SheetIdle

\* lines 182-191
ComputeBorders ==
    /\ gpc = "start"
    /\ borders' = Some(compute_borders(grid_shape))
    /\ gx' = Some(compute_borders(grid_shape).b_w)
    /\ gy' = Some(compute_borders(grid_shape).b_h)
    /\ ci' = 1
    /\ vi' = 1
    /\ gpc' = "rows"
    /\ UNCHANGED <<grid_shape, gw, projs, rhVars, hbVars, svVars, exVars, ufVars, spVars>>

\* lines 193-203: one view is drawn
PlaceView ==
    /\ gpc = "rows"
    /\ ci <= Len(grid_shape)
    /\ vi <= Len(grid_shape[ci])
    /\ LET view == grid_shape[ci][vi]
       IN /\ projs' = Append(projs, [x0 |-> gx[1], x1 |-> NAdd(gx[1], view.w),
                                     y0 |-> gy[1], y1 |-> NAdd(gy[1], view.h),
                                     ci |-> ci, vi |-> vi])
          /\ gw' = Some(view.w)
          /\ gy' = Some(NAdd(gy[1], NAdd(view.h, borders[1].b_h)))
    /\ vi' = vi + 1
    /\ UNCHANGED <<gpc, grid_shape, borders, gx, ci, rhVars, hbVars, svVars, exVars, ufVars, spVars>>

\* lines 204-205: the inner loop is over
EndOfRow ==
    /\ gpc = "rows"
    /\ ci <= Len(grid_shape)
    /\ vi > Len(grid_shape[ci])
    /\ gy' = Some(borders[1].b_h)
    /\ gx' = Some(NAdd(gx[1], NAdd(gw[1], borders[1].b_w)))
    /\ ci' = ci + 1
    /\ vi' = 1
    /\ UNCHANGED <<gpc, grid_shape, borders, gw, projs, rhVars, hbVars, svVars, exVars, ufVars, spVars>>

\* lines 207-208
ReturnGrid ==
    /\ gpc = "rows"
    /\ ci > Len(grid_shape)
    /\ gpc' = "done"
    /\ UNCHANGED <<grid_shape, borders, gx, gy, gw, ci, vi, projs,
                   rhVars, hbVars, svVars, exVars, ufVars, spVars>>

NextGrid ==
    \/ ComputeBorders
    \/ PlaceView
    \/ EndOfRow
    \/ ReturnGrid

SpecGrid == InitGrid /\ [][NextGrid]_vars

\* The extents drawn, once __call__ has returned.
GridDrawn == gpc = "done"
Extents == {projs[k] : k \in 1..Len(projs)}
InsideAxis(e) ==
    /\ ~NGt(Rat(0), e.x0)
    /\ ~NGt(e.x1, borders[1].width)
    /\ ~NGt(Rat(0), e.y0)
    /\ ~NGt(e.y1, borders[1].height)
Overlap(e, f) ==
    /\ NGt(e.x1, f.x0)
    /\ NGt(f.x1, e.x0)
    /\ NGt(e.y1, f.y0)
    /\ NGt(f.y1, e.y0)

\* C12: for every grid, also one whose views differ in size, once the grid
\* is drawn every extent lies inside the axis extent (0, 0, width, height)
\* that _compute_borders returned, no two extents overlap, vertically
\* neighbouring extents and the lower and upper edge are b_h apart, and
\* horizontally neighbouring extents and the left and right edge are b_w
\* apart.
C12_GridLayout ==
    GridDrawn =>
        /\ \A e \in Extents : InsideAxis(e)
        /\ \A e, f \in Extents : e # f => ~Overlap(e, f)
        /\ \A e \in Extents :
              /\ e.vi = 1 => NEq(e.y0, borders[1].b_h)
              /\ e.vi = Len(grid_shape[e.ci]) =>
                    NEq(NSub(borders[1].height, e.y1), borders[1].b_h)
              /\ e.ci = 1 => NEq(e.x0, borders[1].b_w)
              /\ e.ci = Len(grid_shape) =>
                    NEq(NSub(borders[1].width, e.x1), borders[1].b_w)
        /\ \A e, f \in Extents :
              /\ (f.ci = e.ci /\ f.vi = e.vi + 1) => NEq(NSub(f.y0, e.y1), borders[1].b_h)
              /\ (f.ci = e.ci + 1) => NEq(NSub(f.x0, e.x1), borders[1].b_w)

-----------------------------------------------------------------------------
(* update_frame of PointPlot, ContourPlot and SheetPlot:                   *)
(* src/dataviews/plotting/sheetplots.py lines 45-50, 82-87, 138-141.       *)
(* Specification SpecFrames: a plot that has been drawn (it shows the last *)
(* frame of its stack, lines 30 and 71) receives update_frame(n) calls.    *)
(* A SheetPlot holds one PointPlot or ContourPlot per layer in self.plots. *)

\* lines 46, 83, 139: n if n < len(self) else len(self) - 1
ClampFrame_len(n, len) == IF n < len THEN n ELSE len
ClampFrame(n, len) == IF n < len THEN n ELSE len - 1

\* lines 47-48 and 84-85: the frame list(self._stack.values())[n] is handed
\* to the artist; the index of the frame now displayed
LeafUpdateFrame(n, len) == ClampFrame(n, len)

MaxStack == 3
MaxLayers == 2
MaxArg == 4
MaxCalls == 3
LeafKinds == {"PointPlot", "ContourPlot"}
LayerPlots ==
    UNION {[1..k -> [kind : LeafKinds, len : 1..MaxStack]] : k \in 1..MaxLayers}

\* A drawn plot: every artist shows the last frame of its stack.
InitFrames ==
    /\ plotkind \in LeafKinds \cup {"SheetPlot"}
    /\ stack_len \in 1..MaxStack
    /\ layer_plots \in IF plotkind = "SheetPlot" THEN LayerPlots ELSE {<<>>}
    /\ shown = IF plotkind = "SheetPlot"
               THEN Array([k \in 1..Len(layer_plots) |-> layer_plots[k].len - 1])
               ELSE <<stack_len - 1>>
    /\ last_n = None
    /\ ncalls = 0
    /\ RHIdle
    /\ HBIdle
    /\ SaveIdle
    /\ ExportIdle
    /\ GridIdle
    /\ SheetIdle

\* PointPlot.update_frame(n), lines 45-50
PointUpdateFrame ==
    /\ plotkind = "PointPlot"
    /\ ncalls < MaxCalls
    /\ \E n \in 0..MaxArg :
          /\ shown' = <<LeafUpdateFrame(n, stack_len)>>
          /\ last_n' = Some(n)
    /\ ncalls' = ncalls + 1
    /\ UNCHANGED <<plotkind, stack_len, layer_plots, rhVars, hbVars, svVars, exVars, cgVars, spVars>>

\* ContourPlot.update_frame(n), lines 82-87
ContourUpdateFrame ==
    /\ plotkind = "ContourPlot"
    /\ ncalls < MaxCalls
    /\ \E n \in 0..MaxArg :
          /\ shown' = <<LeafUpdateFrame(n, stack_len)>>
          /\ last_n' = Some(n)
    /\ ncalls' = ncalls + 1
    /\ UNCHANGED <<plotkind, stack_len, layer_plots, rhVars, hbVars, svVars, exVars, cgVars, spVars>>

\* SheetPlot.update_frame(n), lines 138-141: n is clamped to the overlay's
\* stack, then every layer plot's update_frame is called with it
SheetUpdateFrame ==
    /\ plotkind = "SheetPlot"
    /\ ncalls < MaxCalls
    /\ \E n \in 0..MaxArg :
          /\ shown' = Array([k \in 1..Len(layer_plots) |->
                               LeafUpdateFrame(ClampFrame(n, stack_len), layer_plots[k].len)])
          /\ last_n' = Some(n)
    /\ ncalls' = ncalls + 1
    /\ UNCHANGED <<plotkind, stack_len, layer_plots, rhVars, hbVars, svVars, exVars, cgVars, spVars>>

NextFrames ==
    \/ PointUpdateFrame
    \/ ContourUpdateFrame
    \/ SheetUpdateFrame

SpecFrames == InitFrames /\ [][NextFrames]_vars

\* min(a, b)
Minimum(a, b) == IF a <= b THEN a ELSE b
SameLengths == \A k \in 1..Len(layer_plots) : layer_plots[k].len = stack_len

\* C13: after every update_frame(n) call with n >= 0, in any sequence of
\* calls: a PointPlot or ContourPlot displays the frame at index
\* min(n, len(plot) - 1); every artist displays a frame whose index is
\* within its stack; and every layer plot of a SheetPlot displays the frame
\* at index min(n, len(plot) - 1) when all layers have as many frames as the
\* overlay.
C13_FrameClamped ==
    last_n # None =>
        /\ plotkind \in {"PointPlot", "ContourPlot"} =>
              shown = <<Minimum(last_n[1], stack_len - 1)>>
        /\ plotkind \in {"PointPlot", "ContourPlot"} => shown[1] \in 0..(stack_len - 1)
        /\ plotkind = "SheetPlot" =>
              /\ Len(shown) = Len(layer_plots)
              /\ \A k \in 1..Len(shown) : shown[k] \in 0..(layer_plots[k].len - 1)
              /\ SameLengths =>
                    \A k \in 1..Len(shown) : shown[k] = Minimum(last_n[1], stack_len - 1)

\* C13 witness: a SheetPlot of two layers with two frames each has been
\* scrubbed twice, last with n = 3 beyond the end, and both layers show
\* frame 1.
C13_Witness ==
    /\ plotkind = "SheetPlot"
    /\ stack_len = 2
    /\ Len(layer_plots) = 2
    /\ SameLengths
    /\ ncalls = 2
    /\ last_n = Some(3)
    /\ shown = <<1, 1>>

-----------------------------------------------------------------------------
(* SheetPlot.__call__: src/dataviews/plotting/sheetplots.py lines 118-135. *)
(* Specification SpecSheet: one call on an overlay whose layers each have  *)
(* a style (a string) and a type.                                          *)

\* The styles explored, in the order of Python's string comparison.
StyleOrder == <<"a", "b", "c">>
LayerTypes == {"Points", "Contours"}

\* lines 273-277: Plot.defaults
PlotDefaults ==
    [t \in {"SheetView", "Points", "Contours"} |->
        IF t = "Points" THEN "PointPlot"
        ELSE IF t = "Contours" THEN "ContourPlot" ELSE "SheetViewPlot"]

\* the layers of one style, in their order
WithStyle(s, st) == LET Test(l) == l.style = st IN SelectSeq(s, Test)

\* line 122: sorted(stacks, key=lambda x: x.style), a stable sort
RECURSIVE SortedFrom(_, _)
SortedFrom(s, k) ==
    IF k > Len(StyleOrder) THEN <<>>
    ELSE WithStyle(s, StyleOrder[k]) \o SortedFrom(s, k + 1)
SortedByStyle_unsorted(s) == s
SortedByStyle(s) == SortedFrom(s, 1)

\* line 124: groupby(sorted_stacks, lambda s: s.style): the runs of equal
\* style, each with list(v)
RECURSIVE GroupBy(_)
GroupBy(s) ==
    IF Len(s) = 0 THEN <<>>
    ELSE LET k == s[1].style
             n == CHOOSE n \in 1..Len(s) :
                     /\ \A i \in 1..n : s[i].style = k
                     /\ n = Len(s) \/ s[n + 1].style # k
         IN <<[key |-> k, items |-> SubSeq(s, 1, n)]>> \o GroupBy(SubSeq(s, n + 1, Len(s)))

\* line 123: dict((k, enumerate(list(v))) ...): a later pair replaces an
\* earlier one of the same key; every enumerate starts at 0
DictOfEnumerates(pairs) ==
    [k \in {pairs[i].key : i \in 1..Len(pairs)} |->
        LET last == CHOOSE i \in 1..Len(pairs) :
                        /\ pairs[i].key = k
                        /\ \A j \in (i + 1)..Len(pairs) : pairs[j].key # k
        IN [items |-> pairs[last].items, pos |-> 0]]

MaxOverlay == 3
Overlays ==
    UNION {[1..n -> [style : {StyleOrder[k] : k \in 1..Len(StyleOrder)}, type : LayerTypes]] :
              n \in 1..MaxOverlay}

\* plot(axis) is called
InitSheet ==
    /\ kpc = "start"
    /\ stacks \in Overlays
    /\ style_groups = <<>>
    /\ zorder = 0
    /\ plots = <<>>
    /\ kraised = None
    /\ RHIdle
    /\ HBIdle
    /\ SaveIdle
    /\ ExportIdle
    /\ GridIdle
    /\ FramesIdle

\* lines 119-124
GroupStyles ==
    /\ kpc = "start"
    /\ style_groups' = DictOfEnumerates(GroupBy(SortedByStyle(stacks)))
    /\ kpc' = "layers"
    /\ UNCHANGED <<stacks, zorder, plots, kraised,
                   rhVars, hbVars, svVars, exVars, cgVars, ufVars>>

\* lines 126-132: one layer is plotted; next() on an exhausted enumerate
\* raises StopIteration
PlotLayer ==
    /\ kpc = "layers"
    /\ zorder < Len(stacks)
    /\ LET stack == stacks[zorder + 1]
           group == style_groups[stack.style]
       IN IF group.pos >= Len(group.items)
          THEN /\ kraised' = Some("StopIteration")
               /\ kpc' = "done"
               /\ UNCHANGED <<style_groups, zorder, plots>>
          ELSE /\ style_groups' = [style_groups EXCEPT ![stack.style].pos = @ + 1]
               /\ plots' = Append(plots, [kind |-> PlotDefaults[stack.type],
                                          zorder |-> zorder,
                                          cyclic_index |-> group.pos,
                                          layer |-> zorder + 1])
               /\ zorder' = zorder + 1
               /\ UNCHANGED <<kpc, kraised>>
    /\ UNCHANGED <<stacks, rhVars, hbVars, svVars, exVars, cgVars, ufVars>>

\* lines 134-135
ReturnSheet ==
    /\ kpc = "layers"
    /\ zorder = Len(stacks)
    /\ kpc' = "done"
    /\ UNCHANGED <<stacks, style_groups, zorder, plots, kraised,
                   rhVars, hbVars, svVars, exVars, cgVars, ufVars>>

NextSheet ==
    \/ GroupStyles
    \/ PlotLayer
    \/ ReturnSheet

SpecSheet == InitSheet /\ [][NextSheet]_vars

\* The number of layers before layer i that have its style.
EarlierSameStyle(i) == Cardinality({j \in 1..(i - 1) : stacks[j].style = stacks[i].style})

\* C14: when SheetPlot.__call__ has finished it has raised nothing and has
\* created exactly one sub-plot per layer, in overlay order; the sub-plot of
\* layer Li has zorder i and cyclic_index equal to the number of earlier
\* layers with the same style as Li.
C14_StyleCycling ==
    kpc = "done" =>
        /\ kraised = None
        /\ Len(plots) = Len(stacks)
        /\ \A i \in 1..Len(plots) :
              /\ plots[i].layer = i
              /\ plots[i].zorder = i - 1
              /\ plots[i].cyclic_index = EarlierSameStyle(i)

\* C14 witness: layers of styles b, a, b have been plotted with zorders
\* 0, 1, 2 and cyclic indices 0, 0, 1.
C14_Witness ==
    /\ kpc = "done"
    /\ Len(stacks) = 3
    /\ stacks[1].style = "b" /\ stacks[2].style = "a" /\ stacks[3].style = "b"
    /\ Len(plots) = 3
    /\ plots[1].cyclic_index = 0 /\ plots[2].cyclic_index = 0 /\ plots[3].cyclic_index = 1
    /\ plots[3].zorder = 2

====
